---- MODULE Spec2Model ----
(***************************************************************************)
(* Model of src/index.ts: the ServiceLayer client of a session-based REST  *)
(* API.  One client object (the exported singleton), a clock, the remote   *)
(* server, and a set of callers each running one async invocation at a     *)
(* time.  An action is one run-to-completion segment of JavaScript: the    *)
(* code between two awaits.  Time is counted in minutes.                   *)
(***************************************************************************)
EXTENDS Integers, Sequences, FiniteSets, TLC

(* ------------------------------ bounds -------------------------------- *)
MaxTime   == 1      \* the clock runs 0..MaxTime
MaxCalls  == 3      \* invocations issued in one behaviour
MaxLogins == 2      \* login requests the server answers with a session
MaxPages  == 2      \* links 1..MaxPages; link l continues to l+1
MaxWalk   == 3      \* linked pages the server serves to one find

Procs    == {1, 2}                 \* concurrently running invocations
Timeouts == {1, 2}                 \* SessionTimeout values the server returns
Links    == 1..MaxPages
Hosts    == {<<"h">>, <<"h", "/">>, <<"h", "/", "/">>}
OptionBags == {"default", "custom"}   \* {} (the default) or a caller's bag

(* --------------------------- JavaScript values ------------------------ *)
\* One record shape for every response body / message the client handles.
Val(kind, text, hasValue, value, nextLink) ==
    [kind |-> kind, text |-> text, hasValue |-> hasValue,
     value |-> value, nextLink |-> nextLink]

Undefined == Val("undefined", "", FALSE, <<>>, 0)
Str(s)    == Val("string", s, FALSE, <<>>, 0)
Body(s)   == Val("body", s, FALSE, <<>>, 0)

\* The server's list data: page l holds PageValue(l) and links to l+1; the
\* page behind LoopLink links to itself.
LoopLink == MaxPages + 1
Queries == Links \cup {LoopLink}
PageValue(l) == [i \in 1..(l % 3) |-> 10 * l + i]
NextLinkOf(l) == IF l < MaxPages THEN l + 1 ELSE IF l = LoopLink THEN LoopLink ELSE 0
Page(l) == Val("page", "", TRUE, PageValue(l), NextLinkOf(l))

\* The item JavaScript appends for Array.prototype.concat(undefined).
UndefinedItem == -1

(* ------------------------------ errors -------------------------------- *)
NoResponse == [present |-> FALSE, status |-> 0, data |-> Undefined]
NoRequest  == [present |-> FALSE, path |-> ""]
Err(response, request, message) ==
    [response |-> response, request |-> request, message |-> message]
NoError == Err(NoResponse, NoRequest, "")

\* The three shapes of a failure raised by the transport for a sent call.
RejectedStatus(status, path) ==
    Err([present |-> TRUE, status |-> status, data |-> Body("rejected")],
        [present |-> TRUE, path |-> path], "Request failed with status code")
NetworkFailure(path) ==
    Err(NoResponse, [present |-> TRUE, path |-> path], "Network Error")
SetupFailure == Err(NoResponse, NoRequest, "setup failed")
\* this.instance is null: the property access throws a TypeError.
NullInstanceError == Err(NoResponse, NoRequest, "TypeError")


(* --------------------------- pure helpers ----------------------------- *)
\* validateStatus without the 405 exception.
validateStatusDefault(status) == status >= 200 /\ status < 300

\* validateStatus of the transport built by createSession.
validateStatus(status) == (status >= 200 /\ status < 300) \/ status = 405

\* config.host with every '/' removed.
StripHostEverySlash(host) == SelectSeq(host, LAMBDA c : c # "/")

\* config.host with one trailing '/' removed, when it ends in one.
StripHost(host) ==
    IF Len(host) > 0 /\ host[Len(host)] = "/"
    THEN SubSeq(host, 1, Len(host) - 1)
    ELSE host

\* { ...stored, ...given }: a shallow merge, the given fields win.
MergeConfig(stored, given) ==
    [k \in DOMAIN stored \cup DOMAIN given |->
        IF k \in DOMAIN given THEN given[k] ELSE stored[k]]

\* `${config.host}:${config.port}/b1s/${config.version}/`
BaseURL(cfg) == <<cfg.host, cfg.port, cfg.version>>

\* The constructor's configuration.
DefaultConfig ==
    [port |-> 80, version |-> "v2", debug |-> FALSE, host |-> <<"h">>,
     company |-> "", password |-> "", username |-> ""]

\* startSessionTime / endSessionTime before any login: null.
NullTime == -1

\* isAfter with the comparison made inclusive.
isSameOrAfter(t, that) == that # NullTime /\ t >= that

\* A comparison that takes a null instant for one that has passed.
isAfterOrNull(t, that) == that = NullTime \/ t > that

\* now.isAfter(that): false for a null (invalid) instant, else strictly later.
isAfter(t, that) == that # NullTime /\ t > that

\* The expiry without the one-minute margin.
EndOfSessionNoMargin(start, timeout) == start + timeout

\* startSessionTime.add(sessionTimeout - 1, 'minute')
EndOfSession(start, timeout) == start + (timeout - 1)

\* parseError with the request tested before the response.
parseErrorRequestFirst(e) ==
    IF e.request.present
    THEN [threw |-> FALSE, error |-> TRUE, message |-> Str("ERROR REQUEST")]
    ELSE IF e.response.present
         THEN [threw |-> TRUE, error |-> FALSE, message |-> Undefined]
         ELSE [threw |-> FALSE, error |-> TRUE, message |-> Str(e.message)]

\* parseError({response, request, message}).  With a response and no request
\* the read of request.path throws.
parseError(e) ==
    IF e.response.present
    THEN IF e.request.present
         THEN [threw |-> FALSE, error |-> TRUE, message |-> e.response.data]
         ELSE [threw |-> TRUE, error |-> FALSE, message |-> Undefined]
    ELSE IF e.request.present
         THEN [threw |-> FALSE, error |-> TRUE, message |-> Str("ERROR REQUEST")]
         ELSE [threw |-> FALSE, error |-> TRUE, message |-> Str(e.message)]

\* The page put in front of the accumulator.
ConcatInFront(result, data) ==
    IF data.hasValue THEN data.value \o result ELSE Append(result, UndefinedItem)

\* result.concat(request.value)
Concat(result, data) ==
    IF data.hasValue THEN result \o data.value ELSE Append(result, UndefinedItem)

(* ------------------------------- state -------------------------------- *)
VARIABLES
    now,               \* the clock: dayjs()
    config,            \* this.config
    instance,          \* this.instance: the transport, or null
    withCredentials,   \* axios.defaults.withCredentials, shared by the process
    sessionTimeout,    \* this.sessionTimeout
    startSessionTime,  \* this.startSessionTime
    endSessionTime,    \* this.endSessionTime
    stale,             \* a Login call failed on an expired session, none succeeded since
    issued,            \* the server: the number of sessions it has created
    calls,             \* invocations issued so far
    pr                 \* the async invocation each caller is running

vars == <<now, config, instance, withCredentials, sessionTimeout,
          startSessionTime, endSessionTime, stale, issued, calls, pr>>

NoCookie == [set |-> FALSE, sid |-> 0, company |-> ""]
NullInstance == [present |-> FALSE, baseURL |-> BaseURL(DefaultConfig), Cookie |-> NoCookie]
NoReply == [sid |-> 0, timeout |-> 0, until |-> 0]
NoSend == [link |-> 0, options |-> "default", Cookie |-> NoCookie]

Normalizing == {"get", "put", "patch", "post"}   \* the methods with a try/catch
Requesting  == {"query", "get", "put", "patch", "post"}

\* A caller's frame: the locals of the invocation plus a record of what it did.
Frame(op, q, options) ==
    [op |-> op,
     pc |-> "idle",
     stage |-> IF op = "find" THEN "pre" ELSE "call",
     q |-> q,                  \* the query / resource / link of the pending call
     options |-> options,      \* the caller's options argument
     passed |-> options,       \* the options handed to the pending transport call
     config |-> DefaultConfig, \* createSession's local config
     reply |-> NoReply,        \* result.data of the Login call
     result |-> <<>>,          \* find's accumulator
     outcome |-> "none",       \* "return" or "raise" once the promise settles
     ret |-> Undefined,        \* the body or the message returned
     retError |-> FALSE,       \* the error field of a returned error object
     err |-> NoError,          \* the failure raised or caught
     parsed |-> FALSE,         \* parseError was applied
     checks |-> 0,             \* refreshSession evaluations
     logins |-> 0,             \* Login requests issued
     resumed |-> 0,            \* of which createSession ran to its end
     loginFailed |-> FALSE,    \* a Login request of this invocation failed
     sent |-> 0,               \* API requests handed to the transport
     status |-> 0,             \* the status of the response that settled it
     last |-> NoSend,          \* the latest of them
     start |-> q,              \* find's query argument
     pages |-> 0,              \* page bodies accumulated by find
     relogins |-> 0]           \* logins done after the first page of a find

Idle == Frame("none", 0, "default")

Init ==
    /\ now = 0
    /\ config = DefaultConfig
    /\ instance = NullInstance
    /\ withCredentials = FALSE
    /\ sessionTimeout = 0
    /\ startSessionTime = NullTime
    /\ endSessionTime = NullTime
    /\ stale = FALSE
    /\ issued = 0
    /\ calls = 0
    /\ pr = [p \in Procs |-> Idle]

(* ----------------------- settling an invocation ----------------------- *)
\* createSession's locals die when it settles.
Leave(f) == [f EXCEPT !.config = DefaultConfig, !.reply = NoReply]

Return(f, val) ==
    [Leave(f) EXCEPT !.pc = "done", !.outcome = "return", !.ret = val]

Raise(f, e) ==
    [Leave(f) EXCEPT !.pc = "done", !.outcome = "raise", !.err = e]

\* A catch block that raises the failure again.
CatchRethrow(f, e) == Raise(f, e)

\* catch (error) { return this.parseError(error); }
Catch(f, e) ==
    LET r == parseError(e) IN
    IF r.threw
    THEN Raise([f EXCEPT !.parsed = TRUE], NullInstanceError)
    ELSE [Leave(f) EXCEPT !.pc = "done", !.outcome = "return", !.ret = r.message,
                          !.retError = r.error, !.err = e, !.parsed = TRUE]

\* Every operation with the try/catch of get.
FailCaught(f, e) == Catch(f, e)

\* A failure inside the awaited part of an operation.
Fail(f, e) == IF f.op \in Normalizing THEN Catch(f, e) ELSE Raise(f, e)

(* ---------------------------- the client ------------------------------ *)
\* The caller's continuation takes the settled result; the slot is free again.
Collect(p) ==
    /\ pr[p].pc = "done"
    /\ pr' = [pr EXCEPT ![p] = Idle]
    /\ UNCHANGED <<now, config, instance, withCredentials, sessionTimeout,
                   startSessionTime, endSessionTime, stale, issued, calls>>

\* A settled promise runs its caller's continuation (a microtask) before any
\* other event is taken.
Settled == \E p \in Procs : pr[p].pc = "done"

\* The configurations callers hand to createSession.
ConfigArgs ==
    {[host |-> h, company |-> "SBO", username |-> "manager", password |-> "pw"] :
        h \in Hosts}

\* createSession up to its await: merge the configuration, set the axios
\* default, strip the host, replace the transport by a fresh one without
\* cookie, post Login.
CreateSessionBegin(p, f, cfg) ==
    LET merged == MergeConfig(config, cfg)
        c == [merged EXCEPT !.host = StripHost(merged.host)]
    IN /\ config' = c
       /\ withCredentials' = TRUE
       /\ instance' = [present |-> TRUE, baseURL |-> BaseURL(c), Cookie |-> NoCookie]
       /\ pr' = [pr EXCEPT ![p] = [f EXCEPT !.pc = "login_wait", !.config = c,
                                            !.logins = @ + 1,
                                            !.relogins = IF f.pages > 0
                                                         THEN @ + 1 ELSE @]]

\* refreshSession that returns without looking at the clock.
RefreshSessionSkipped(p, f) ==
    /\ pr' = [pr EXCEPT ![p] =
                IF f.op = "refreshSession" THEN Return(f, Undefined)
                ELSE [f EXCEPT !.pc = "refreshed"]]
    /\ UNCHANGED <<config, instance, withCredentials>>

\* refreshSession up to its await, or to its return when the session is valid.
RefreshSession(p, f) ==
    LET g == [f EXCEPT !.checks = @ + 1] IN
    IF isAfter(now, endSessionTime)
    THEN CreateSessionBegin(p, g, config)
    ELSE /\ pr' = [pr EXCEPT ![p] =
                     IF g.op = "refreshSession" THEN Return(g, Undefined)
                     ELSE [g EXCEPT !.pc = "refreshed"]]
         /\ UNCHANGED <<config, instance, withCredentials>>

\* A new invocation takes the lowest free caller slot.
Free(p) == pr[p].pc = "idle"
CanInvoke(p) ==
    /\ ~Settled
    /\ calls < MaxCalls
    /\ Free(p)
    /\ \A r \in Procs : r < p => ~Free(r)

\* A caller invokes createSession(cfg).
createSession(p, cfg) ==
    /\ CanInvoke(p)
    /\ calls' = calls + 1
    /\ CreateSessionBegin(p, Frame("createSession", 0, "default"), cfg)
    /\ UNCHANGED <<now, sessionTimeout, startSessionTime, endSessionTime,
                   stale, issued>>

\* A caller invokes refreshSession().
refreshSession(p) ==
    /\ CanInvoke(p)
    /\ calls' = calls + 1
    /\ RefreshSession(p, Frame("refreshSession", 0, "default"))
    /\ UNCHANGED <<now, sessionTimeout, startSessionTime, endSessionTime,
                   stale, issued>>

\* query(q, options) up to its await: await this.refreshSession().
query(p, q, options) ==
    /\ CanInvoke(p)
    /\ calls' = calls + 1
    /\ RefreshSession(p, Frame("query", q, options))
    /\ UNCHANGED <<now, sessionTimeout, startSessionTime, endSessionTime,
                   stale, issued>>

\* get(resource, options) up to its await, inside its try block.
get(p, resource, options) ==
    /\ CanInvoke(p)
    /\ calls' = calls + 1
    /\ RefreshSession(p, Frame("get", resource, options))
    /\ UNCHANGED <<now, sessionTimeout, startSessionTime, endSessionTime,
                   stale, issued>>

\* put(resource, data) up to its await, inside its try block.
put(p, resource) ==
    /\ CanInvoke(p)
    /\ calls' = calls + 1
    /\ RefreshSession(p, Frame("put", resource, "default"))
    /\ UNCHANGED <<now, sessionTimeout, startSessionTime, endSessionTime,
                   stale, issued>>

\* patch(resource, data) up to its await, inside its try block.
patch(p, resource) ==
    /\ CanInvoke(p)
    /\ calls' = calls + 1
    /\ RefreshSession(p, Frame("patch", resource, "default"))
    /\ UNCHANGED <<now, sessionTimeout, startSessionTime, endSessionTime,
                   stale, issued>>

\* post(resource, data) up to its await, inside its try block.
post(p, resource) ==
    /\ CanInvoke(p)
    /\ calls' = calls + 1
    /\ RefreshSession(p, Frame("post", resource, "default"))
    /\ UNCHANGED <<now, sessionTimeout, startSessionTime, endSessionTime,
                   stale, issued>>

\* find(query, options) up to its first await: await this.refreshSession().
find(p, q, options) ==
    /\ CanInvoke(p)
    /\ calls' = calls + 1
    /\ RefreshSession(p, Frame("find", q, options))
    /\ UNCHANGED <<now, sessionTimeout, startSessionTime, endSessionTime,
                   stale, issued>>

\* find after its own refreshSession: request = await this.query(query), which
\* runs query's refreshSession with the default options.
FindFirstQuery(p) ==
    /\ ~Settled
    /\ pr[p].pc = "refreshed"
    /\ pr[p].op = "find"
    /\ pr[p].stage = "pre"
    /\ RefreshSession(p, [pr[p] EXCEPT !.stage = "page", !.passed = "default"])
    /\ UNCHANGED <<now, sessionTimeout, startSessionTime, endSessionTime,
                   stale, issued, calls>>

\* After refreshSession: this.instance.<verb>(q, ...) hands the request to the
\* transport.
SendRequest(p) ==
    /\ ~Settled
    /\ pr[p].pc = "refreshed"
    /\ pr[p].stage # "pre"
    /\ instance.present
    /\ pr' = [pr EXCEPT ![p].pc = "req_wait",
                        ![p].sent = @ + 1,
                        ![p].last = [link |-> pr[p].q, options |-> pr[p].passed,
                                     Cookie |-> instance.Cookie]]
    /\ UNCHANGED <<now, config, instance, withCredentials, sessionTimeout,
                   startSessionTime, endSessionTime, stale, issued, calls>>

\* After refreshSession with this.instance still null: the call throws.
NullInstanceThrow(p) ==
    /\ ~Settled
    /\ pr[p].pc = "refreshed"
    /\ pr[p].stage # "pre"
    /\ ~instance.present
    /\ pr' = [pr EXCEPT ![p] = Fail(pr[p], NullInstanceError)]
    /\ UNCHANGED <<now, config, instance, withCredentials, sessionTimeout,
                   startSessionTime, endSessionTime, stale, issued, calls>>

(* ------------------------ the Login round trip ------------------------ *)
\* A continuation that is ready to run (a microtask) runs before the event
\* loop takes the next transport event.
Ready == \E p \in Procs : pr[p].pc = "refreshed"

LoginFailures ==
    {RejectedStatus(401, "Login"), NetworkFailure("Login"), SetupFailure}

\* The server accepts POST Login: it creates a session and answers
\* {SessionId, SessionTimeout}.
LoginGranted(p, timeout) ==
    /\ ~Settled
    /\ pr[p].pc = "login_wait"
    /\ issued < MaxLogins
    /\ issued' = issued + 1
    /\ pr' = [pr EXCEPT ![p].pc = "login_reply",
                        ![p].reply = [sid |-> issued + 1, timeout |-> timeout,
                                      until |-> now + timeout]]
    /\ UNCHANGED <<now, config, instance, withCredentials, sessionTimeout,
                   startSessionTime, endSessionTime, stale, calls>>

\* createSession after its await: the cookie goes on the current transport,
\* the three session fields are written, and the awaiting caller continues.
LoginResume(p) ==
    /\ ~Settled
    /\ pr[p].pc = "login_reply"
    /\ ~Ready
    /\ instance' = [instance EXCEPT !.Cookie =
                       [set |-> TRUE, sid |-> pr[p].reply.sid,
                        company |-> pr[p].config.company]]
    /\ sessionTimeout' = pr[p].reply.timeout
    /\ startSessionTime' = now
    /\ endSessionTime' = EndOfSession(now, pr[p].reply.timeout)
    /\ LET f == [pr[p] EXCEPT !.resumed = @ + 1] IN
       pr' = [pr EXCEPT ![p] =
                IF f.op \in {"createSession", "refreshSession"}
                THEN Return(f, Undefined)
                ELSE [Leave(f) EXCEPT !.pc = "refreshed"]]
    /\ stale' = FALSE
    /\ UNCHANGED <<now, config, withCredentials, issued, calls>>

\* A failed Login call that is issued once more.
LoginFailsRetry(p, e) ==
    /\ ~Settled
    /\ pr[p].pc = "login_wait"
    /\ ~Ready
    /\ IF pr[p].logins < 2
       THEN CreateSessionBegin(p, [pr[p] EXCEPT !.loginFailed = TRUE], pr[p].config)
       ELSE /\ pr' = [pr EXCEPT ![p] = Fail([pr[p] EXCEPT !.loginFailed = TRUE], e)]
            /\ UNCHANGED <<config, instance, withCredentials>>
    /\ stale' = (stale \/ isAfter(now, endSessionTime))
    /\ UNCHANGED <<now, sessionTimeout, startSessionTime, endSessionTime,
                   issued, calls>>

\* A failed Login call that discards the session fields.
LoginFailsForgets(p, e) ==
    /\ ~Settled
    /\ pr[p].pc = "login_wait"
    /\ ~Ready
    /\ pr' = [pr EXCEPT ![p] = Fail([pr[p] EXCEPT !.loginFailed = TRUE], e)]
    /\ sessionTimeout' = 0
    /\ startSessionTime' = NullTime
    /\ endSessionTime' = NullTime
    /\ stale' = (stale \/ isAfter(now, endSessionTime))
    /\ UNCHANGED <<now, config, instance, withCredentials, issued, calls>>

\* The Login call fails: createSession and refreshSession reject, and the
\* failure reaches the operation that awaited them.
LoginFails(p, e) ==
    /\ ~Settled
    /\ pr[p].pc = "login_wait"
    /\ ~Ready
    /\ pr' = [pr EXCEPT ![p] = Fail([pr[p] EXCEPT !.loginFailed = TRUE], e)]
    /\ stale' = (stale \/ isAfter(now, endSessionTime))
    /\ UNCHANGED <<now, config, instance, withCredentials, sessionTimeout,
                   startSessionTime, endSessionTime, issued, calls>>

(* ------------------------- the API round trip ------------------------- *)
Statuses == {199, 200, 299, 300, 405}
RequestFailures == {NetworkFailure("api"), SetupFailure}

\* The body the server sends with a status the transport accepts.
DataOf(f, status) ==
    IF status = 405 THEN Body("405")
    ELSE IF f.op \in {"query", "find"} THEN Page(f.q) ELSE Body("resource")

\* find following the link without query's refreshSession.
FindPageUnchecked(p, f, data) ==
    LET g == [f EXCEPT !.result = Concat(f.result, data),
                       !.pages = IF data.kind = "page" THEN @ + 1 ELSE @]
    IN /\ pr' = [pr EXCEPT ![p] =
                   IF data.nextLink # 0
                   THEN [g EXCEPT !.q = data.nextLink, !.passed = g.options,
                                  !.status = 0, !.pc = "refreshed"]
                   ELSE Return(g, Undefined)]
       /\ UNCHANGED <<config, instance, withCredentials>>

\* find following its first link with the default options.
FindPageFirstDefault(p, f, data) ==
    LET g == [f EXCEPT !.result = Concat(f.result, data),
                       !.pages = IF data.kind = "page" THEN @ + 1 ELSE @]
    IN IF data.nextLink # 0
       THEN RefreshSession(p, [g EXCEPT !.q = data.nextLink,
                                        !.passed = IF g.sent = 1 THEN "default"
                                                   ELSE g.options,
                                        !.status = 0])
       ELSE /\ pr' = [pr EXCEPT ![p] = Return(g, Undefined)]
            /\ UNCHANGED <<config, instance, withCredentials>>

\* find without its while loop: it returns after the first follow-up page.
FindPageNoLoop(p, f, data) ==
    LET g == [f EXCEPT !.result = Concat(f.result, data),
                       !.pages = IF data.kind = "page" THEN @ + 1 ELSE @]
    IN IF data.nextLink # 0 /\ g.sent < 2
       THEN RefreshSession(p, [g EXCEPT !.q = data.nextLink, !.passed = g.options,
                                        !.status = 0])
       ELSE /\ pr' = [pr EXCEPT ![p] = Return(g, Undefined)]
            /\ UNCHANGED <<config, instance, withCredentials>>

\* find after a page arrived: accumulate, then follow the link or return.
FindPage(p, f, data) ==
    LET g == [f EXCEPT !.result = Concat(f.result, data),
                       !.pages = IF data.kind = "page" THEN @ + 1 ELSE @]
    IN IF data.nextLink # 0
       THEN RefreshSession(p, [g EXCEPT !.q = data.nextLink, !.passed = g.options,
                                        !.status = 0])
       ELSE /\ pr' = [pr EXCEPT ![p] = Return(g, Undefined)]
            /\ UNCHANGED <<config, instance, withCredentials>>

\* The server answers the pending API request with a status.
Respond(p, status) ==
    /\ ~Settled
    /\ pr[p].pc = "req_wait"
    /\ ~Ready
    /\ (/\ pr[p].op = "find"
        /\ validateStatus(status)
        /\ DataOf(pr[p], status).nextLink # 0) => pr[p].pages < MaxWalk
    /\ LET f == [pr[p] EXCEPT !.status = status] IN
       IF validateStatus(status)
       THEN IF f.op = "find"
            THEN FindPage(p, f, DataOf(f, status))
            ELSE /\ pr' = [pr EXCEPT ![p] = Return(f, DataOf(f, status))]
                 /\ UNCHANGED <<config, instance, withCredentials>>
       ELSE /\ pr' = [pr EXCEPT ![p] = Fail(f, RejectedStatus(status, "api"))]
            /\ UNCHANGED <<config, instance, withCredentials>>
    /\ UNCHANGED <<now, sessionTimeout, startSessionTime, endSessionTime,
                   stale, issued, calls>>

\* The pending API request fails without a response.
RequestFails(p, e) ==
    /\ ~Settled
    /\ pr[p].pc = "req_wait"
    /\ ~Ready
    /\ pr' = [pr EXCEPT ![p] = Fail(pr[p], e)]
    /\ UNCHANGED <<now, config, instance, withCredentials, sessionTimeout,
                   startSessionTime, endSessionTime, stale, issued, calls>>

\* A minute passes.
Tick ==
    /\ ~Settled
    /\ now < MaxTime
    /\ now' = now + 1
    /\ UNCHANGED <<config, instance, withCredentials, sessionTimeout,
                   startSessionTime, endSessionTime, stale, issued, calls, pr>>

Resources == {1}

Next ==
    \/ \E p \in Procs : Collect(p)
    \/ Tick
    \/ \E p \in Procs, cfg \in ConfigArgs : createSession(p, cfg)
    \/ \E p \in Procs : refreshSession(p)
    \/ \E p \in Procs, q \in Resources, o \in OptionBags : query(p, q, o)
    \/ \E p \in Procs, q \in Queries, o \in OptionBags : find(p, q, o)
    \/ \E p \in Procs, r \in Resources, o \in OptionBags : get(p, r, o)
    \/ \E p \in Procs, r \in Resources : put(p, r)
    \/ \E p \in Procs, r \in Resources : patch(p, r)
    \/ \E p \in Procs, r \in Resources : post(p, r)
    \/ \E p \in Procs : FindFirstQuery(p)
    \/ \E p \in Procs : SendRequest(p)
    \/ \E p \in Procs : NullInstanceThrow(p)
    \/ \E p \in Procs, t \in Timeouts : LoginGranted(p, t)
    \/ \E p \in Procs : LoginResume(p)
    \/ \E p \in Procs, e \in LoginFailures : LoginFails(p, e)
    \/ \E p \in Procs, s \in Statuses : Respond(p, s)
    \/ \E p \in Procs, e \in RequestFailures : RequestFails(p, e)

Spec == Init /\ [][Next]_vars

\* The steps that continue caller p's invocation: its ready continuations and
\* the transport events that settle its pending request.
Continue(p) ==
    \/ Collect(p)
    \/ FindFirstQuery(p)
    \/ SendRequest(p)
    \/ NullInstanceThrow(p)
    \/ \E t \in Timeouts : LoginGranted(p, t)
    \/ LoginResume(p)
    \/ \E e \in LoginFailures : LoginFails(p, e)
    \/ \E s \in Statuses : Respond(p, s)
    \/ \E e \in RequestFailures : RequestFails(p, e)

\* The client used for createSession, with a host that needs no stripping,
\* and for find, with options of the caller's own.
NextFind ==
    \/ \E p \in Procs : Collect(p)
    \/ Tick
    \/ \E p \in Procs, cfg \in {c \in ConfigArgs : c.host = StripHost(c.host)} :
           createSession(p, cfg)
    \/ \E p \in Procs, q \in Queries : find(p, q, "custom")
    \/ \E p \in Procs : FindFirstQuery(p)
    \/ \E p \in Procs : SendRequest(p)
    \/ \E p \in Procs : NullInstanceThrow(p)
    \/ \E p \in Procs, t \in Timeouts : LoginGranted(p, t)
    \/ \E p \in Procs : LoginResume(p)
    \/ \E p \in Procs, e \in LoginFailures : LoginFails(p, e)
    \/ \E p \in Procs, s \in Statuses : Respond(p, s)
    \/ \E p \in Procs, e \in RequestFailures : RequestFails(p, e)

\* The event loop runs every ready continuation and every pending request is
\* settled by the transport.
SpecLive == Init /\ [][NextFind]_vars /\ \A p \in Procs : WF_vars(Continue(p))

(* ------------------------------ claims -------------------------------- *)
\* What a frame had done before a step (a free slot has done nothing).
LoginsBefore(p) == IF pr[p].pc = "idle" THEN 0 ELSE pr[p].logins
ChecksBefore(p) == IF pr[p].pc = "idle" THEN 0 ELSE pr[p].checks
\* The step evaluates refreshSession in frame p.
Evaluates(p) == pr'[p].pc # "idle" /\ pr'[p].checks = ChecksBefore(p) + 1
LoginsIssued(p) == pr'[p].logins - LoginsBefore(p)

\* C1 (as amended): an evaluation of refreshSession issues no Login call when
\* the clock is not after endSessionTime (the instant equal to it included, and
\* when there is no session), and exactly one Login call when the clock is
\* strictly after it; the rest of an invocation of refreshSession issues none.
C1_RefreshOnlyWhenAfter ==
    [][\A p \in Procs :
        /\ Evaluates(p) =>
             LoginsIssued(p) =
               (IF endSessionTime # NullTime /\ now > endSessionTime THEN 1 ELSE 0)
        /\ (pr[p].op = "refreshSession" /\ pr'[p].op = "refreshSession") =>
             pr'[p].logins = pr[p].logins]_vars

\* C1 witness: refreshSession was invoked after the expiry and its one Login
\* call is in flight.
C1_Witness ==
    \E p \in Procs :
        /\ pr[p].op = "refreshSession"
        /\ pr[p].pc = "login_wait"
        /\ pr[p].logins = 1
        /\ endSessionTime # NullTime
        /\ now > endSessionTime

\* C1 as stated: one Login call also at the instant equal to endSessionTime.
C1_RefreshAtOrAfter ==
    [][\A p \in Procs :
        (Evaluates(p) /\ endSessionTime # NullTime) =>
            LoginsIssued(p) = (IF now >= endSessionTime THEN 1 ELSE 0)]_vars

\* C2 as stated: an invocation in which a Login call failed settles by
\* raising, and parseError was not applied to the failure.
C2_LoginFailureRaised ==
    \A p \in Procs :
        (pr[p].pc = "done" /\ pr[p].loginFailed) =>
            (pr[p].outcome = "raise" /\ ~pr[p].parsed)

\* The API request of frame p was sent and failed.
ApiFailed(p) ==
    /\ pr[p].pc = "done"
    /\ pr[p].sent >= 1
    /\ pr[p].err # NoError

\* C3: get, put, patch and post whose API request failed, in any of the three
\* failure shapes, settle by returning an object with error = true.
C3_FailureReturned ==
    \A p \in Procs :
        (pr[p].op \in Normalizing /\ ApiFailed(p)) =>
            (pr[p].outcome = "return" /\ pr[p].retError)

\* C3 witness: a put whose request was never constructed has returned.
C3_Witness ==
    \E p \in Procs :
        /\ pr[p].op = "put"
        /\ ApiFailed(p)
        /\ pr[p].err = SetupFailure
        /\ pr[p].outcome = "return"

\* C4: once a login has succeeded the stored expiry is the stored creation
\* instant plus (sessionTimeout - 1) minutes, and every completed login writes
\* the three fields from its own reply and the clock.
C4_ExpiryMargin ==
    /\ [](startSessionTime # NullTime =>
            /\ sessionTimeout >= 1
            /\ endSessionTime = startSessionTime + (sessionTimeout - 1))
    /\ [][\A p \in Procs :
            (pr[p].pc = "login_reply" /\ pr'[p].pc # "login_reply") =>
                /\ sessionTimeout' = pr[p].reply.timeout
                /\ startSessionTime' = now
                /\ endSessionTime' = now + (pr[p].reply.timeout - 1)]_vars

\* C4 witness: a re-login at minute 1 stored the second session, timeout 2.
C4_Witness ==
    /\ instance.Cookie.set
    /\ instance.Cookie.sid = 2
    /\ startSessionTime = 1
    /\ sessionTimeout = 2
    /\ \E p \in Procs : pr[p].pc = "done" /\ pr[p].checks = 1 /\ pr[p].resumed = 1

\* The concatenation of the pages of the chain that starts at link l, and the
\* number of its pages.
RECURSIVE ConcatFrom(_)
ConcatFrom(l) ==
    PageValue(l) \o (IF NextLinkOf(l) # 0 THEN ConcatFrom(NextLinkOf(l)) ELSE <<>>)
RECURSIVE ChainLength(_)
ChainLength(l) == 1 + (IF NextLinkOf(l) # 0 THEN ChainLength(NextLinkOf(l)) ELSE 0)

\* find has returned and every response it accumulated was a page.
WalkedChain(p) ==
    /\ pr[p].op = "find"
    /\ pr[p].start \in Links
    /\ pr[p].pc = "done"
    /\ pr[p].outcome = "return"
    /\ pr[p].pages = pr[p].sent

\* C5: find over a chain of N linked pages returns value_1 ++ ... ++ value_N
\* in server order and has issued exactly N query requests.
C5_FindConcatenates ==
    \A p \in Procs :
        WalkedChain(p) =>
            /\ pr[p].result = ConcatFrom(pr[p].start)
            /\ pr[p].sent = ChainLength(pr[p].start)

\* C5 witness: find has walked the chain from link 1, more than one page.
C5_Witness ==
    \E p \in Procs :
        /\ WalkedChain(p)
        /\ pr[p].start = 1
        /\ pr[p].sent = MaxPages
        /\ Len(pr[p].result) >= 3

\* C6: every page fetch of find follows a validity check of its own and, when
\* that check started a re-login, the completed login; a page that arrives
\* with a link when the session has expired starts a re-login before the next
\* fetch; the accumulator and the link survive the re-login; and find returns
\* the full concatenation.
C6_MidWalkRelogin ==
    /\ [](\A p \in Procs :
            /\ (pr[p].op = "find" /\ pr[p].pc = "req_wait") =>
                  /\ pr[p].checks = pr[p].sent + 1
                  /\ pr[p].logins = pr[p].resumed
            /\ (WalkedChain(p) /\ pr[p].relogins > 0) =>
                  pr[p].result = ConcatFrom(pr[p].start))
    /\ [][\A p \in Procs :
            /\ (/\ pr[p].op = "find" /\ pr[p].pc = "req_wait"
                /\ pr'[p].pages = pr[p].pages + 1 /\ pr'[p].pc # "done") =>
                  /\ pr'[p].result = pr[p].result \o PageValue(pr[p].q)
                  /\ pr'[p].q = NextLinkOf(pr[p].q)
                  /\ pr'[p].pc = (IF endSessionTime # NullTime /\ now > endSessionTime
                                  THEN "login_wait" ELSE "refreshed")
            /\ (/\ pr[p].op = "find" /\ pr[p].pc \in {"login_wait", "login_reply"}
                /\ pr'[p].pc \notin {"done", "idle"}) =>
                  /\ pr'[p].result = pr[p].result
                  /\ pr'[p].q = pr[p].q]_vars

\* C6 witness: find has returned both pages after a re-login between them.
C6_Witness ==
    \E p \in Procs :
        /\ WalkedChain(p)
        /\ pr[p].relogins >= 1
        /\ pr[p].sent = 2
        /\ pr[p].result = ConcatFrom(1)

\* The sessions the server has created for this client that have not run out
\* and that the client has not replaced: those on their way to the client and
\* the one in the cookie of the current transport.
LiveSessions ==
    {pr[p].reply.sid :
        p \in {r \in Procs : pr[r].pc = "login_reply" /\ now < pr[r].reply.until}}
    \cup (IF instance.Cookie.set /\ ~isAfter(now, endSessionTime)
          THEN {instance.Cookie.sid} ELSE {})

\* C7 as stated: the client never has more than one live session.
C7_AtMostOneLive == Cardinality(LiveSessions) <= 1

\* C8: an API request is in the transport's hands only when the validity
\* check of that operation (of that page fetch, in find) has been made and
\* every login that check started has completed.
C8_CheckedBeforeSend ==
    \A p \in Procs :
        pr[p].pc = "req_wait" =>
            /\ pr[p].checks = pr[p].sent + (IF pr[p].op = "find" THEN 1 ELSE 0)
            /\ pr[p].logins = pr[p].resumed
            /\ ~pr[p].loginFailed

\* C8 witness: a post has sent its request after a re-login that succeeded.
C8_Witness ==
    \E p \in Procs :
        /\ pr[p].op = "post"
        /\ pr[p].pc = "req_wait"
        /\ pr[p].logins = 1
        /\ pr[p].resumed = 1

\* C9: createSession, refreshSession, get, put, patch, post and query issue at
\* most one Login request in an invocation, and an invocation whose Login
\* failed has ended with that single request.
C9_NoLoginRetry ==
    \A p \in Procs :
        pr[p].op \in {"createSession", "refreshSession"} \cup Requesting =>
            /\ pr[p].logins <= 1
            /\ pr[p].loginFailed => (pr[p].pc = "done" /\ pr[p].logins = 1)

\* C9 witness: a query whose re-login failed has raised.
C9_Witness ==
    \E p \in Procs :
        /\ pr[p].op = "query"
        /\ pr[p].loginFailed
        /\ pr[p].pc = "done"
        /\ pr[p].outcome = "raise"

\* C10: the object parseError returned carries error = true and the response
\* body when the failure has a response (also when it has a request), else
\* "ERROR REQUEST" when it has a request, else the failure's own message.
C10_MessagePerShape ==
    \A p \in Procs :
        (pr[p].pc = "done" /\ pr[p].parsed) =>
            /\ pr[p].outcome = "return"
            /\ pr[p].retError
            /\ pr[p].err.response.present => pr[p].ret = pr[p].err.response.data
            /\ (~pr[p].err.response.present /\ pr[p].err.request.present) =>
                  pr[p].ret = Str("ERROR REQUEST")
            /\ (~pr[p].err.response.present /\ ~pr[p].err.request.present) =>
                  pr[p].ret = Str(pr[p].err.message)

\* C10 witness: a failure with both a response and a request was normalized
\* to the response body.
C10_Witness ==
    \E p \in Procs :
        /\ pr[p].pc = "done"
        /\ pr[p].parsed
        /\ pr[p].err.response.present
        /\ pr[p].err.request.present
        /\ pr[p].ret = Body("rejected")

\* C11: a response to get is returned as its plain body exactly when its
\* status is within 200..299 or is 405, and yields the error object for every
\* other status; a 405 response is returned as the body the server sent.
C11_SuccessStatuses ==
    \A p \in Procs :
        (pr[p].op = "get" /\ pr[p].pc = "done" /\ pr[p].status # 0) =>
            /\ pr[p].outcome = "return"
            /\ pr[p].retError <=>
                  ~((200 <= pr[p].status /\ pr[p].status <= 299) \/ pr[p].status = 405)
            /\ pr[p].retError => (pr[p].parsed /\ pr[p].ret = Body("rejected"))
            /\ (~pr[p].retError /\ pr[p].status = 405) => pr[p].ret = Body("405")
            /\ (~pr[p].retError /\ pr[p].status # 405) => pr[p].ret = Body("resource")

\* C11 witness: a get answered with 405 has returned the body.
C11_Witness ==
    \E p \in Procs :
        /\ pr[p].op = "get"
        /\ pr[p].pc = "done"
        /\ pr[p].status = 405
        /\ pr[p].outcome = "return"
        /\ ~pr[p].retError
        /\ pr[p].ret = Body("405")

\* C12 as stated: find ignores the caller's options for its first request
\* against a continuation link and passes them to every later one.
C12_FirstFollowUpIgnoresOptions ==
    \A p \in Procs :
        (pr[p].op = "find" /\ pr[p].pc = "req_wait") =>
            /\ pr[p].sent = 2 => pr[p].last.options = "default"
            /\ pr[p].sent > 2 => pr[p].last.options = pr[p].options

\* C12 amended: find ignores the caller's options for its initial page fetch
\* (the request for the query itself) and passes them to every request against
\* a continuation link, the first one included.
C12_InitialFetchIgnoresOptions ==
    \A p \in Procs :
        (pr[p].op = "find" /\ pr[p].pc = "req_wait") =>
            /\ pr[p].sent = 1 =>
                  (pr[p].last.options = "default" /\ pr[p].last.link = pr[p].start)
            /\ pr[p].sent >= 2 => pr[p].last.options = pr[p].options

\* C12 witness: the first request against a continuation link is in flight
\* with the caller's non-default options.
C12_Witness ==
    \E p \in Procs :
        /\ pr[p].op = "find"
        /\ pr[p].pc = "req_wait"
        /\ pr[p].sent = 2
        /\ pr[p].options = "custom"
        /\ pr[p].last.options = "custom"

\* C13: createSession called with a host that ends in '/' stores that host
\* without its last character, and a host that does not end in '/' as given;
\* the transport's base URL is built from the stored host, the stored port and
\* the stored version.
C13_OneSlashStripped ==
    [][\A p \in Procs, cfg \in ConfigArgs :
          createSession(p, cfg) =>
              /\ config'.host =
                    IF cfg.host[Len(cfg.host)] = "/"
                    THEN SubSeq(cfg.host, 1, Len(cfg.host) - 1)
                    ELSE cfg.host
              /\ Len(config'.host) >= Len(cfg.host) - 1
              /\ instance'.present
              /\ instance'.baseURL = <<config'.host, config'.port, config'.version>>]_vars

\* C13 witness: createSession was called with a host ending in two slashes
\* and the stored host and the base URL keep one of them.
C13_Witness ==
    \E p \in Procs :
        /\ pr[p].op = "createSession"
        /\ pr[p].pc = "login_wait"
        /\ config.host = <<"h", "/">>
        /\ instance.baseURL = <<<<"h", "/">>, 80, "v2">>

\* C14: no operation of the client changes state outside the client instance:
\* the defaults of the axios module, which every other transport of the
\* process reads, stay as they were.
C14_NoStateOutsideClient == [][withCredentials' = withCredentials]_vars

\* The response that settles the pending request of find carries no
\* continuation marker.
NoMarker(p, status) ==
    status = 405 \/ NextLinkOf(pr[p].last.link) = 0

\* C15: find returns exactly at a response that carries no continuation
\* marker: a page with a marker makes it fetch the marked link, a response
\* without one makes it return, and so it never returns while the server's
\* links lead back into a cycle. With every continuation run and every
\* request settled, find on a finite chain eventually settles, and it settles
\* by returning unless a request of it failed or no transport existed.
C15_FindTermination ==
    /\ [][\A p \in Procs :
            (/\ pr[p].op = "find" /\ pr[p].pc = "req_wait"
             /\ pr'[p].pc # "req_wait" /\ pr'[p].err = NoError) =>
                /\ pr'[p].pc = "done" <=> NoMarker(p, pr'[p].status)
                /\ pr'[p].pc = "done" => pr'[p].outcome = "return"
                /\ pr'[p].pc # "done" =>
                      (pr'[p].q = NextLinkOf(pr[p].last.link) /\ pr'[p].outcome = "none")]_vars
    /\ [](\A p \in Procs :
            (pr[p].op = "find" /\ pr[p].outcome = "return") =>
                /\ pr[p].status = 405 \/ NextLinkOf(pr[p].last.link) = 0
                /\ pr[p].start = LoopLink => pr[p].status = 405
            )
    /\ [](\A p \in Procs :
            (pr[p].op = "find" /\ pr[p].outcome = "raise") => pr[p].err # NoError)
    /\ \A p \in Procs :
            (pr[p].op = "find" /\ pr[p].start \in Links /\ pr[p].pc # "done")
                ~> (pr[p].op = "find" /\ pr[p].start \in Links /\ pr[p].pc = "done")

\* C15 witness: a find on the cycle has fetched more pages than any finite
\* chain holds and is still fetching.
C15_Witness ==
    \E p \in Procs :
        /\ pr[p].op = "find"
        /\ pr[p].start = LoopLink
        /\ pr[p].pages > MaxPages
        /\ pr[p].pc = "req_wait"
        /\ pr[p].outcome = "none"

\* C16: every API request in flight was handed to a transport that carried a
\* session cookie at that moment.
C16_RequestsCarryCookie ==
    \A p \in Procs : pr[p].pc = "req_wait" => pr[p].last.Cookie.set

\* The session the client holds has expired.
Expired == endSessionTime # NullTime /\ now > endSessionTime

\* The step is the failure of a Login call issued by a re-login of frame p.
ReloginFails(p) ==
    /\ pr[p].pc = "login_wait"
    /\ pr[p].op # "createSession"
    /\ pr'[p].pc = "done"
    /\ pr'[p].loginFailed

\* C17: a re-login that fails leaves sessionTimeout, startSessionTime and
\* endSessionTime as they were; when the session is expired at that moment,
\* then until a login succeeds the session stays expired, every evaluation of
\* refreshSession issues a Login call, and no API request is handed to the
\* transport.
C17_FailedReloginKeepsExpiry ==
    /\ [](stale => Expired)
    /\ [][\A p \in Procs :
            /\ ReloginFails(p) =>
                  /\ Expired => stale'
                  /\ sessionTimeout' = sessionTimeout
                  /\ startSessionTime' = startSessionTime
                  /\ endSessionTime' = endSessionTime
            /\ (Evaluates(p) /\ stale) =>
                  (LoginsIssued(p) = 1 /\ pr'[p].pc = "login_wait")
            /\ stale => pr'[p].sent <= pr[p].sent
            /\ (stale /\ ~stale') =>
                  \E q \in Procs :
                      pr[q].pc = "login_reply" /\ pr'[q].resumed = pr[q].resumed + 1]_vars

\* C17 witness: after a failed re-login, with the session fields still those
\* of the expired session, a request issued its own Login call and waits.
C17_Witness ==
    \E p \in Procs :
        /\ stale
        /\ pr[p].op \in Requesting
        /\ pr[p].pc = "login_wait"
        /\ pr[p].sent = 0
        /\ \A q \in Procs \ {p} : pr[q].pc = "idle"
        /\ startSessionTime # NullTime
        /\ Expired

\* C18: while createSession has never been called (there is no transport), an
\* invocation of any other operation creates no transport, issues no Login
\* call and hands no request to a transport; get, put, patch and post settle by
\* returning {error: true, message} with the message of the TypeError, query
\* and find settle by raising it.
C18_NoSessionNoRequest ==
    /\ [][(~instance.present /\ \A q \in Procs : pr'[q].op # "createSession") =>
            /\ ~instance'.present
            /\ \A p \in Procs :
                  /\ pr'[p].logins = 0
                  /\ pr'[p].sent = 0
                  /\ pr'[p].pc \in {"idle", "refreshed", "done"}]_vars
    /\ [](\A p \in Procs :
            (~instance.present /\ pr[p].pc = "done") =>
                /\ pr[p].op \in Normalizing =>
                      /\ pr[p].outcome = "return"
                      /\ pr[p].parsed
                      /\ pr[p].retError
                      /\ pr[p].ret = Str("TypeError")
                /\ pr[p].op \in {"query", "find"} =>
                      /\ pr[p].outcome = "raise"
                      /\ ~pr[p].parsed
                      /\ pr[p].err = NullInstanceError
                /\ pr[p].op = "find" => pr[p].result = <<>>)

\* C18 witness: a put invoked without any createSession has returned the error
\* object, with no Login call and no request made.
C18_Witness ==
    \E p \in Procs :
        /\ ~instance.present
        /\ pr[p].op = "put"
        /\ pr[p].pc = "done"
        /\ pr[p].retError
        /\ pr[p].logins = 0
        /\ pr[p].sent = 0

\* C19: a failure in query or find (a rejected status, a request without
\* response, a request that could not be set up) settles the invocation by
\* raising that failure: parseError is not applied and nothing is returned,
\* also not the items find had accumulated from the pages before.
C19_QueryFindRaise ==
    \A p \in Procs :
        (pr[p].op \in {"query", "find"} /\ pr[p].pc = "done") =>
            /\ pr[p].err # NoError <=> pr[p].outcome = "raise"
            /\ pr[p].outcome = "raise" =>
                  /\ ~pr[p].parsed
                  /\ ~pr[p].retError
                  /\ pr[p].ret = Undefined
                  /\ pr[p].sent > 0 =>
                        \/ pr[p].err \in RequestFailures
                        \/ pr[p].err = RejectedStatus(pr[p].status, "api")
                        \/ pr[p].err \in LoginFailures

\* C19 witness: the request for the second page of a find failed and find
\* raised, holding the items of the first page.
C19_Witness ==
    \E p \in Procs :
        /\ pr[p].op = "find"
        /\ pr[p].pc = "done"
        /\ pr[p].outcome = "raise"
        /\ pr[p].sent = 2
        /\ pr[p].pages = 1
        /\ pr[p].err \in RequestFailures
        /\ Len(pr[p].result) > 0

\* C20: a re-login (the Login call that refreshSession issues for another
\* operation) leaves the stored configuration as it was and builds a transport
\* with the base URL of the transport it replaces.
C20_ReloginKeepsConfig ==
    [][\A p \in Procs :
          (/\ pr'[p].pc = "login_wait"
           /\ pr'[p].op # "createSession"
           /\ pr'[p].logins = LoginsBefore(p) + 1) =>
              /\ config' = config
              /\ instance'.baseURL = instance.baseURL]_vars

====
